---- MODULE Spec2Model ----
(***************************************************************************)
(* Model of the Synesthesia brain engine (Tolqyn):                         *)
(*   audio_processor.py  AudioProcessor   capture callback, frame queue,   *)
(*                                         processing loop, onset state    *)
(*   bridge_osc.py       OSCBridge, SynesthesiaMapper                      *)
(*   main_agent.py       SynesthesiaAgent  statistics, rule update         *)
(*                                                                         *)
(* Threads: the caller of start()/stop() (main), the sounddevice capture   *)
(* callback, the processing thread running _process_loop, and the caller   *)
(* of update_ai_reasoning.  Python switches threads between bytecodes, so  *)
(* every read or write of a shared attribute is a step of its own.         *)
(*                                                                         *)
(* Units: RMS in tenths, hue and angle in degrees, saturation and value in *)
(* tenths, rgb in 1/6000, particle size in tenths, speed in thousandths,   *)
(* frequencies in whole Hz (exact fractions where extract_features is      *)
(* applied to frames of any length).                                       *)
(***************************************************************************)
EXTENDS Integers, Sequences, FiniteSets, TLC

VARIABLES
    is_running,       \* AudioProcessor.is_running
    stream,           \* AudioProcessor.stream: "none", "active", "closed"
    audio_queue,      \* AudioProcessor.audio_queue, oldest frame first
    previous_rms,     \* AudioProcessor.previous_rms
    mapping_rules,    \* the dict shared by SynesthesiaAgent.mapping_rules and SynesthesiaMapper.rules
    stats,            \* SynesthesiaAgent.stats
    mainPc,           \* position of the thread calling start() and stop()
    starts,           \* start() calls that went past the is_running check
    cb,               \* capture callback: <<>> when not running, <<frame>> between the copy and put_nowait
    procPc,           \* position of the processing thread in _process_loop
    audio_data,       \* _process_loop local: the dequeued frame
    features,         \* _process_loop local: the snapshot of extract_features
    hsv,              \* process_audio_features locals h, s, v
    particles,        \* process_audio_features locals count, size
    motion,           \* process_audio_features locals speed, angle
    upPc,             \* position of the thread in update_ai_reasoning
    upNew,            \* update_ai_reasoning locals new_size_range, new_hue_base
    updates,          \* update_ai_reasoning calls made
    args,             \* the arguments the agent and its AudioProcessor were constructed with
    applied,          \* history: the latest calls of extract_features or of the mapper made on their own
    failed,           \* history: ids of the frames one of whose sends raised
    interrupted,      \* history: ids of the frames in extraction or awaiting the callback when stop() cleared the flag
    captured,         \* history: frames the callback was invoked with, in order
    dropped,          \* history: ids of the frames put_nowait refused
    consumed,         \* history: ids of the frames dequeued, in order
    delivered,        \* history: snapshots handed to the feature callback, in order
    sent,             \* history: OSC messages sent, in order
    documents,        \* history: the rule documents installed so far
    calls             \* history: detect_onset calls <<rms, result>>, in order

vars == <<is_running, stream, audio_queue, previous_rms, mapping_rules, stats,
          mainPc, starts, cb, procPc, audio_data, features, hsv, particles,
          motion, upPc, upNew, updates, args, applied, failed, interrupted, captured,
          dropped, consumed, delivered, sent, documents, calls>>

mainVars == <<is_running, stream, mainPc, starts>>
procLocals == <<audio_data, features, hsv, particles, motion>>
upVars == <<upPc, upNew, updates>>
histVars == <<args, applied, interrupted, captured, dropped, consumed, delivered, sent, documents, calls>>

----------------------------------------------------------------------------
(* Bounds of the model                                                      *)

MaxFrames == 2          \* frames the stream delivers in the session runs
MaxBurst == 12          \* frames the stream delivers in the overload runs
MaxRuleFrames == 2      \* frames the stream delivers in the rule-update runs
MaxStarts == 2          \* start() calls
MaxSendFailures == 1    \* sends that raise
MaxUpdates == 2         \* update_ai_reasoning calls
MaxStopFrames == 3      \* frames captured in the stopping runs
MaxFineCalls == 4       \* detect_onset calls in the runs of onsets
MaxSendFrames == 3      \* frames captured, and sends that raise, in the unstopped session
MaxCalls == 4           \* detect_onset calls in the onset runs
MaxStatusFrames == 2    \* frames the stream delivers in the glitch runs
MaxConfigFrames == 2    \* frames the stream delivers in the configuration runs

(* Program constants                                                        *)

QueueMaxSize == 10      \* queue.Queue(maxsize=10)
OnsetThreshold == 3     \* onset_threshold = 0.3, in tenths

None == [none |-> TRUE]

\* SynesthesiaAgent(config_path, ..., sample_rate=44100, buffer_size=1024)
\* with no file at config_path.
DefaultArgs == [config |-> "missing", sample_rate |-> 44100, buffer_size |-> 1024]

\* RMS levels, in tenths, on which the float subtraction of detect_onset
\* agrees with exact arithmetic on the decimal labels.
RmsLevels == {0, 3, 5, 9}

\* What a frame's samples amount to: its RMS and its spectral peak.
Silence == [rms |-> 0, freq |-> 43]
Tone == [rms |-> 5, freq |-> 1033]
FrameKinds == {Silence, Tone, [rms |-> 9, freq |-> 3014]}

\* (time.time() * 30) % 360 at the moments the model samples the wall clock.
ClockAngles == {0, 215}

----------------------------------------------------------------------------
(* The rules document                                                       *)

\* get_default_rules: the fields of the bands, of the motion mapping and of
\* the particle mapping.  A rules document is a record of these fields; a
\* field the document lacks is absent from the record.
get_default_rules ==
    [bass_hz |-> <<20, 250>>, bass_hue |-> <<0, 30>>, bass_saturation |-> 8,
     mid_hz |-> <<250, 2000>>, mid_hue |-> <<60, 180>>, mid_saturation |-> 6,
     treble_hz |-> <<2000, 20000>>, treble_hue |-> <<200, 280>>, treble_saturation |-> 9,
     onset_velocity |-> 75,
     size_range |-> <<5, 50>>]

\* dict.get(key, default), and the chains of it by which the mapper reaches
\* a field of the document.
Get(dict, key, default) == IF key \in DOMAIN dict THEN dict[key] ELSE default

\* What the file at config_path holds when the agent is constructed.
\*   "missing"      no such file
\*   "unparseable"  text that is not JSON
\*   "undecodable"  bytes that are not UTF-8
\*   "not_rules"    JSON that is not a rules document: an object with no "rules" member
\*   "custom"       a rules document with ranges of its own
ConfigFiles == {"missing", "unparseable", "undecodable", "not_rules", "custom"}

\* json.load of the two parseable files.
NotRules == [version |-> "1.0"]
CustomRules ==
    [get_default_rules EXCEPT !.bass_hz = <<20, 1500>>, !.bass_hue = <<10, 50>>,
                              !.mid_hz = <<1500, 4000>>, !.treble_hz = <<4000, 20000>>,
                              !.onset_velocity = 50, !.size_range = <<10, 20>>]
ParsedJson(file) == IF file = "custom" THEN CustomRules ELSE NotRules

\* load_mapping_rules: FileNotFoundError and json.JSONDecodeError are caught
\* and answered with get_default_rules; whatever json.load returns is returned
\* as it is; the UnicodeDecodeError of the read is not caught.
load_mapping_rules(file) ==
    IF file \in {"missing", "unparseable"}
        THEN [raised |-> FALSE, rules |-> get_default_rules]
    ELSE IF file = "undecodable"
        THEN [raised |-> TRUE, rules |-> None]
    ELSE [raised |-> FALSE, rules |-> ParsedJson(file)]

\* The value of recent_rms_values when update_ai_reasoning is called: the
\* attribute is set by the caller, never by the agent.
RecentRmsValues == {"unset", "empty", "loud", "quiet"}

\* update_ai_reasoning: the branch on avg_rms > 0.3.
NewRules(recent) ==
    IF recent = "loud"
        THEN [size_range |-> <<20, 100>>, hue_base |-> 0]
        ELSE [size_range |-> <<2, 10>>, hue_base |-> 200]

Abs(x) == IF x < 0 THEN -x ELSE x
Min(a, b) == IF a < b THEN a ELSE b

----------------------------------------------------------------------------
(* Feature extraction                                                       *)

\* detect_onset: delta = current_rms - previous_rms; onset = delta > threshold.
OnsetOrEqual(current_rms, prev) == current_rms - prev >= OnsetThreshold
detect_onset(current_rms, prev) == current_rms - prev > OnsetThreshold

\* detect_onset on RMS values in hundredths.
detect_onset_fine(current_rms, prev) == current_rms - prev > 10 * OnsetThreshold

\* extract_features on a frame of the configured buffer size.
extract_features(frame, prev) ==
    [id |-> frame.id,
     dominant_freq |-> frame.freq,
     rms |-> frame.rms,
     onset |-> detect_onset(frame.rms, prev)]

----------------------------------------------------------------------------
(* Feature extraction on a frame of any length.  A frame is its length n,   *)
(* the RMS of its samples and the magnitudes compute_fft derives from them, *)
(* one for each of the bins 0 .. n \div 2 - 1.  a is the processor's         *)
(* configuration: sample_rate and buffer_size (fft_size = buffer_size).     *)
(* Sequences are indexed from 1: spectrum[k + 1] is the magnitude of bin k. *)
(* Frequencies are fractions <<numerator, denominator>> of a Hz.            *)

\* freq_bins[k] * fft_size, for fftfreq(fft_size, 1 / sample_rate): the
\* entries after the positive ones are the negative frequencies.
FreqBin(k, a) ==
    (IF k <= (a.buffer_size - 1) \div 2 THEN k ELSE k - a.buffer_size) * a.sample_rate

\* len(self.freq_bins[:len(spectrum)])
PositiveFreqsLen(spectrum, a) == Min(Len(spectrum), a.buffer_size)

\* np.searchsorted(positive_freqs, 20): the binary search for the leftmost
\* position, over positions lo .. hi - 1.
RECURSIVE SearchSorted20(_, _, _)
SearchSorted20(lo, hi, a) ==
    IF lo >= hi
        THEN lo
        ELSE LET mid == lo + (hi - lo) \div 2
             IN  IF FreqBin(mid, a) < 20 * a.buffer_size
                     THEN SearchSorted20(mid + 1, hi, a)
                     ELSE SearchSorted20(lo, mid, a)

\* np.argmax(spectrum[min_idx:]) + min_idx: the first position of the
\* largest magnitude, for a slice that is not empty.
ArgMaxFrom(spectrum, min_idx) ==
    CHOOSE k \in min_idx..(Len(spectrum) - 1) :
        /\ \A j \in min_idx..(Len(spectrum) - 1) : spectrum[j + 1] <= spectrum[k + 1]
        /\ \A j \in min_idx..(k - 1) : spectrum[j + 1] < spectrum[k + 1]

\* compute_fft: scipy's fft raises ValueError on an empty frame; otherwise
\* the n \div 2 magnitudes, whichever window was used.
compute_fft(frame) ==
    IF frame.n = 0
        THEN [raised |-> "ValueError", spectrum |-> <<>>]
        ELSE [raised |-> "", spectrum |-> frame.spectrum]

\* find_dominant_freq: argmax raises ValueError on an empty slice; indexing
\* positive_freqs past its end raises IndexError.
find_dominant_freq(spectrum, a) ==
    LET min_idx == SearchSorted20(0, PositiveFreqsLen(spectrum, a), a)
    IN  IF min_idx >= Len(spectrum)
            THEN [raised |-> "ValueError", dominant_freq |-> None]
        ELSE IF ArgMaxFrom(spectrum, min_idx) >= PositiveFreqsLen(spectrum, a)
            THEN [raised |-> "IndexError", dominant_freq |-> None]
        ELSE [raised |-> "",
              dominant_freq |-> <<FreqBin(ArgMaxFrom(spectrum, min_idx), a), a.buffer_size>>]

\* Sum of the magnitudes of the bins in the set idx.
RECURSIVE SumOver(_, _)
SumOver(spectrum, idx) ==
    IF idx = {}
        THEN 0
        ELSE LET k == CHOOSE k \in idx : TRUE
             IN  spectrum[k + 1] + SumOver(spectrum, idx \ {k})

\* np.mean(spectrum[idx]) if len(idx) > 0 else 0.0
MeanOver(spectrum, idx) ==
    IF idx = {} THEN <<0, 1>> ELSE <<SumOver(spectrum, idx), Cardinality(idx)>>

\* np.where((freqs >= low) & (freqs <= high)): ranges closed at both ends.
BandIdxClosed(spectrum, a, low, high) ==
    {k \in 0..(PositiveFreqsLen(spectrum, a) - 1) :
        /\ FreqBin(k, a) >= low * a.buffer_size
        /\ FreqBin(k, a) <= high * a.buffer_size}

\* np.where((freqs >= low) & (freqs < high))
BandIdx(spectrum, a, low, high) ==
    {k \in 0..(PositiveFreqsLen(spectrum, a) - 1) :
        /\ FreqBin(k, a) >= low * a.buffer_size
        /\ FreqBin(k, a) < high * a.buffer_size}

\* get_frequency_bands
get_frequency_bands(spectrum, a) ==
    [bass |-> MeanOver(spectrum, BandIdx(spectrum, a, 20, 250)),
     mid |-> MeanOver(spectrum, BandIdx(spectrum, a, 250, 2000)),
     treble |-> MeanOver(spectrum, BandIdx(spectrum, a, 2000, 20000))]

\* extract_features, lines 151-174: compute_fft, find_dominant_freq,
\* compute_rms, detect_onset, and the snapshot (less its timestamp).  An
\* exception of the first two steps leaves before detect_onset has run.
ExtractResetsBaseline(frame, prev, a) ==
    LET fft_result == compute_fft(frame)
        dominant == find_dominant_freq(fft_result.spectrum, a)
        baseline == IF frame.n = a.buffer_size THEN prev ELSE 0
    IN  IF fft_result.raised # ""
            THEN [raised |-> fft_result.raised, features |-> None, previous_rms |-> prev]
        ELSE IF dominant.raised # ""
            THEN [raised |-> dominant.raised, features |-> None, previous_rms |-> prev]
        ELSE [raised |-> "",
              features |-> [spectrum |-> fft_result.spectrum,
                            dominant_freq |-> dominant.dominant_freq,
                            rms |-> frame.rms,
                            onset |-> detect_onset(frame.rms, baseline),
                            sample_rate |-> a.sample_rate],
              previous_rms |-> frame.rms]
ExtractFeatures(frame, prev, a) ==
    LET fft_result == compute_fft(frame)
        dominant == find_dominant_freq(fft_result.spectrum, a)
    IN  IF fft_result.raised # ""
            THEN [raised |-> fft_result.raised, features |-> None, previous_rms |-> prev]
        ELSE IF dominant.raised # ""
            THEN [raised |-> dominant.raised, features |-> None, previous_rms |-> prev]
        ELSE [raised |-> "",
              features |-> [spectrum |-> fft_result.spectrum,
                            dominant_freq |-> dominant.dominant_freq,
                            rms |-> frame.rms,
                            onset |-> detect_onset(frame.rms, prev),
                            sample_rate |-> a.sample_rate],
              previous_rms |-> frame.rms]


----------------------------------------------------------------------------
(* OSCBridge and SynesthesiaMapper                                          *)

\* hsv_to_rgb with h in degrees, s and v in tenths; r, g, b in 1/6000.
hsv_to_rgb(h0, s, v) ==
    LET h == h0 % 360
        c == 60 * v * s
        x == v * s * (60 - Abs((h % 120) - 60))
        m == 60 * (10 * v - v * s)
        rgb == IF h < 60 THEN <<c, x, 0>>
               ELSE IF h < 120 THEN <<x, c, 0>>
               ELSE IF h < 180 THEN <<0, c, x>>
               ELSE IF h < 240 THEN <<0, x, c>>
               ELSE IF h < 300 THEN <<x, 0, c>>
               ELSE <<c, 0, x>>
    IN  <<rgb[1] + m, rgb[2] + m, rgb[3] + m>>

\* map_frequency_to_color: the band by dominant frequency, the midpoint of
\* its hue range, its saturation, value = min(intensity * 2, 1.0).  The hue
\* ranges of the model have even sums, so the midpoint is a whole degree.
map_frequency_to_color(rules, dominant_freq, intensity) ==
    LET band == IF dominant_freq < 250 THEN "bass"
                ELSE IF dominant_freq < 2000 THEN "mid"
                ELSE "treble"
        hue_range ==
            CASE band = "bass" -> Get(rules, "bass_hue", <<0, 360>>)
              [] band = "mid" -> Get(rules, "mid_hue", <<0, 360>>)
              [] band = "treble" -> Get(rules, "treble_hue", <<0, 360>>)
        saturation ==
            CASE band = "bass" -> Get(rules, "bass_saturation", 8)
              [] band = "mid" -> Get(rules, "mid_saturation", 8)
              [] band = "treble" -> Get(rules, "treble_saturation", 8)
    IN  [h |-> (hue_range[1] + hue_range[2]) \div 2,
         hue_range |-> hue_range,
         band |-> band,
         s |-> saturation,
         v |-> Min(intensity * 2, 10)]

\* count = round(10 + rms * rms * 100): the nearest integer instead of int().
ParticleCountRounded(rms, unit) ==
    10 + (200 * rms * rms + unit * unit) \div (2 * unit * unit)

\* count = int(10 + rms * rms * 100) as the doubles compute it, rms in 1/unit.
\* On the binary fractions k/64 every step of the expression is exact.  On the
\* decimal tenths the doubles yield the truncation of the decimal value
\* everywhere but at 0.7, where 0.7 * 0.7 * 100 is 48.99999999999999 and int()
\* yields 58.
ParticleCount(rms, unit) ==
    IF 10 * rms = 7 * unit THEN 58 ELSE 10 + (100 * rms * rms) \div (unit * unit)

\* map_rms_to_particles: count = int(10 + rms * rms * 100),
\* size = size_range[0] + rms * (size_range[1] - size_range[0]).  rms and
\* size are in 1/unit.
map_rms_to_particles(rules, rms, unit) ==
    LET size_range == Get(rules, "size_range", <<5, 50>>)
    IN  [count |-> ParticleCount(rms, unit),
         size |-> unit * size_range[1] + rms * (size_range[2] - size_range[1]),
         size_range |-> size_range]

\* map_onset_to_motion without an onset, the angle still read off the clock.
MotionIdleFollowsClock(rules, onset, rms, clock_angle) ==
    IF onset
        THEN [speed |-> Get(rules, "onset_velocity", 75) * (10 + rms), angle |-> clock_angle]
        ELSE [speed |-> 100, angle |-> clock_angle]

\* (time.time() * 30) % 360, the time in tenths of a second.
WallClockAngle(now) == (3 * now) % 360

\* map_onset_to_motion: the angle comes from the wall clock.  rms in tenths,
\* onset_velocity in hundredths, speed in thousandths.
map_onset_to_motion(rules, onset, rms, clock_angle) ==
    IF onset
        THEN [speed |-> Get(rules, "onset_velocity", 75) * (10 + rms), angle |-> clock_angle]
        ELSE [speed |-> 100, angle |-> 0]

\* The OSC messages, as client.send_message receives them.
ColorMessage(id, c) ==
    [address |-> "/visual/color", frame |-> id, args |-> hsv_to_rgb(c.h, c.s, c.v)]
ParticlesMessage(id, p) ==
    [address |-> "/visual/particles", frame |-> id, args |-> <<p.count, p.size>>]
MotionMessage(id, m) ==
    [address |-> "/visual/motion", frame |-> id, args |-> <<m.speed, m.angle>>]
EnergyMessage(id, rms) ==
    [address |-> "/visual/energy", frame |-> id, args |-> <<rms>>]
OnsetMessage(id, rms) ==
    [address |-> "/visual/onset", frame |-> id, args |-> <<rms>>]

----------------------------------------------------------------------------
(* Initial state: a SynesthesiaAgent constructed with the default rules,    *)
(* its AudioProcessor not started.                                          *)

Init ==
    /\ is_running = FALSE
    /\ stream = "none"
    /\ audio_queue = <<>>
    /\ previous_rms = 0
    /\ mapping_rules = get_default_rules
    /\ stats = [frames_processed |-> 0, onsets_detected |-> 0]
    /\ mainPc = "init"
    /\ starts = 0
    /\ cb = <<>>
    /\ procPc = "none"
    /\ audio_data = None
    /\ features = None
    /\ hsv = None
    /\ particles = None
    /\ motion = None
    /\ upPc = "idle"
    /\ upNew = None
    /\ updates = 0
    /\ args = DefaultArgs
    /\ applied = <<>>
    /\ failed = {}
    /\ interrupted = {}
    /\ captured = <<>>
    /\ dropped = {}
    /\ consumed = <<>>
    /\ delivered = <<>>
    /\ sent = <<>>
    /\ documents = {get_default_rules}
    /\ calls = <<>>

----------------------------------------------------------------------------
(* AudioProcessor.start and AudioProcessor.stop, called one after another   *)
(* by one thread.                                                           *)

\* start() without the test of lines 82-84.
StartCallAlways ==
    /\ mainPc \in {"init", "running", "stopped"}
    /\ starts < MaxStarts
    /\ is_running' = TRUE
    /\ mainPc' = "start_stream"
    /\ starts' = starts + 1
    /\ UNCHANGED <<stream, audio_queue, previous_rms, mapping_rules, stats, cb,
                   procPc, procLocals, upVars, failed, histVars>>

\* start(), lines 82-86: return if already running, else set the flag.
StartCall ==
    /\ mainPc \in {"init", "running", "stopped"}
    /\ starts < MaxStarts
    /\ IF is_running
          THEN UNCHANGED <<interrupted, is_running, mainPc, starts>>
          ELSE /\ is_running' = TRUE
               /\ mainPc' = "start_stream"
               /\ starts' = starts + 1
    /\ UNCHANGED <<stream, audio_queue, previous_rms, mapping_rules, stats, cb,
                   procPc, procLocals, upVars, failed, histVars>>

\* start(), lines 89-95: open and start the input stream.
StartStream ==
    /\ mainPc = "start_stream"
    /\ stream' = "active"
    /\ mainPc' = "start_thread"
    /\ UNCHANGED <<is_running, starts, audio_queue, previous_rms, mapping_rules,
                   stats, cb, procPc, procLocals, upVars, failed, histVars>>

\* start(), lines 98-99: start the processing thread.
StartThread ==
    /\ mainPc = "start_thread"
    /\ procPc' = "while"
    /\ mainPc' = "running"
    /\ UNCHANGED <<is_running, stream, starts, audio_queue, previous_rms,
                   mapping_rules, stats, cb, procLocals, upVars, failed, histVars>>

\* stop(), lines 105-108: return if not running, else clear the flag.
StopCall ==
    /\ mainPc \in {"init", "running", "stopped"}
    /\ IF ~is_running
          THEN UNCHANGED <<interrupted, is_running, mainPc>>
          ELSE /\ is_running' = FALSE
               /\ mainPc' = "stop_stream"
    /\ interrupted' = IF is_running /\ procPc \in {"extract", "callback"}
                          THEN interrupted \cup {audio_data.id}
                          ELSE interrupted
    /\ UNCHANGED <<stream, starts, audio_queue, previous_rms, mapping_rules, stats,
                   cb, procPc, procLocals, upVars, failed, args, applied, captured,
                   dropped, consumed, delivered, sent, documents, calls>>

\* stop(), lines 110-112: stream.stop() returns once the callback in
\* progress has returned; stream.close().
StopStream ==
    /\ mainPc = "stop_stream"
    /\ cb = <<>>
    /\ stream' = IF stream = "none" THEN "none" ELSE "closed"
    /\ mainPc' = "join"
    /\ UNCHANGED <<is_running, starts, audio_queue, previous_rms, mapping_rules,
                   stats, cb, procPc, procLocals, upVars, failed, histVars>>

\* stop(), lines 114-117: processing_thread.join() returns once the thread
\* has terminated.
\* A stop() that, the thread joined, empties the queue and resets the
\* onset baseline.
StopJoinClears ==
    /\ mainPc = "join"
    /\ procPc \in {"none", "done"}
    /\ mainPc' = "stopped"
    /\ audio_queue' = <<>>
    /\ previous_rms' = 0
    /\ UNCHANGED <<is_running, stream, starts, mapping_rules, stats, cb, procPc,
                   procLocals, upVars, failed, histVars>>
JoinNoWait == TRUE
JoinReturns == procPc \in {"none", "done"}
StopJoin ==
    /\ mainPc = "join"
    /\ JoinReturns
    /\ mainPc' = "stopped"
    /\ UNCHANGED <<is_running, stream, starts, audio_queue, previous_rms,
                   mapping_rules, stats, cb, procPc, procLocals, upVars, failed,
                   histVars>>

----------------------------------------------------------------------------
(* AudioProcessor.audio_callback, run by the stream's thread.               *)

\* queue.Queue.put_nowait: Full when the queue holds maxsize items.
PutUnbounded(q, item) == [queue |-> Append(q, item), full |-> FALSE]
PutDropOldest(q, item) ==
    IF Len(q) >= QueueMaxSize
        THEN [queue |-> Append(Tail(q), item), full |-> TRUE]
        ELSE [queue |-> Append(q, item), full |-> FALSE]
put_nowait(q, item) ==
    IF Len(q) >= QueueMaxSize
        THEN [queue |-> q, full |-> TRUE]
        ELSE [queue |-> Append(q, item), full |-> FALSE]

\* Lines 70-75: the stream invokes the callback with its next frame and a
\* status; a non-empty status is printed, and the frame is copied either way.
\* The frame carries the status it arrived with.
AudioCallbackStatus(limit, kind, status) ==
    /\ stream = "active"
    /\ cb = <<>>
    /\ Len(captured) < limit
    /\ LET frame == [id |-> Len(captured) + 1, rms |-> kind.rms, freq |-> kind.freq,
                     status |-> status]
       IN  /\ cb' = <<frame>>
           /\ captured' = Append(captured, frame)
    /\ UNCHANGED <<args, applied, interrupted, mainVars, audio_queue, previous_rms, mapping_rules, stats,
                   procPc, procLocals, upVars, failed, dropped, consumed,
                   delivered, sent, documents, calls>>

\* The callback invoked with an empty status.
AudioCallbackCopy(limit, kind) == AudioCallbackStatus(limit, kind, "")

\* Lines 76-78: put_nowait, Full swallowed, return.
AudioCallbackPutBlocking ==
    /\ cb # <<>>
    /\ Len(audio_queue) < QueueMaxSize
    /\ audio_queue' = Append(audio_queue, cb[1])
    /\ cb' = <<>>
    /\ UNCHANGED <<args, applied, interrupted, mainVars, previous_rms, mapping_rules, stats, procPc, procLocals,
                   upVars, failed, captured, dropped, consumed, delivered, sent,
                   documents, calls>>
\* A callback that also tracks the level of the frame it enqueues.
AudioCallbackPutTracksLevel ==
    /\ cb # <<>>
    /\ LET r == put_nowait(audio_queue, cb[1])
       IN  /\ audio_queue' = r.queue
           /\ dropped' = IF r.full THEN dropped \cup {cb[1].id} ELSE dropped
    /\ previous_rms' = cb[1].rms
    /\ cb' = <<>>
    /\ UNCHANGED <<args, applied, interrupted, mainVars, mapping_rules, stats, procPc,
                   procLocals, upVars, failed, captured, consumed, delivered, sent,
                   documents, calls>>

AudioCallbackPut ==
    /\ cb # <<>>
    /\ LET r == put_nowait(audio_queue, cb[1])
       IN  /\ audio_queue' = r.queue
           /\ dropped' = IF r.full THEN dropped \cup {cb[1].id} ELSE dropped
    /\ cb' = <<>>
    /\ UNCHANGED <<args, applied, interrupted, mainVars, previous_rms, mapping_rules, stats, procPc, procLocals,
                   upVars, failed, captured, consumed, delivered, sent,
                   documents, calls>>

----------------------------------------------------------------------------
(* AudioProcessor._process_loop, run by the processing thread, with the     *)
(* feature callback SynesthesiaAgent.on_audio_features it calls.  A local   *)
(* that is assigned again before its next use is cleared when the           *)
(* iteration ends.                                                          *)

ClearedLocals ==
    /\ audio_data' = None
    /\ features' = None
    /\ hsv' = None
    /\ particles' = None
    /\ motion' = None

\* Line 121: while self.is_running.
ProcWhile ==
    /\ procPc = "while"
    /\ procPc' = IF is_running THEN "get" ELSE "done"
    /\ UNCHANGED <<mainVars, audio_queue, previous_rms, mapping_rules, stats, cb,
                   procLocals, upVars, failed, histVars>>

\* A get that returns the newest frame of the queue.
ProcGetNewest ==
    /\ procPc = "get"
    /\ audio_queue # <<>>
    /\ audio_data' = audio_queue[Len(audio_queue)]
    /\ audio_queue' = SubSeq(audio_queue, 1, Len(audio_queue) - 1)
    /\ consumed' = Append(consumed, audio_queue[Len(audio_queue)].id)
    /\ procPc' = "extract"
    /\ UNCHANGED <<args, applied, interrupted, mainVars, previous_rms, mapping_rules, stats, cb, features, hsv,
                   particles, motion, upVars, failed, captured, dropped,
                   delivered, sent, documents, calls>>

\* Line 124: audio_queue.get(timeout=0.1) returns the oldest frame.
ProcGetFrame ==
    /\ procPc = "get"
    /\ audio_queue # <<>>
    /\ audio_data' = Head(audio_queue)
    /\ audio_queue' = Tail(audio_queue)
    /\ consumed' = Append(consumed, Head(audio_queue).id)
    /\ procPc' = "extract"
    /\ UNCHANGED <<args, applied, interrupted, mainVars, previous_rms, mapping_rules, stats, cb, features, hsv,
                   particles, motion, upVars, failed, captured, dropped,
                   delivered, sent, documents, calls>>

\* A get without timeout: on an empty queue the thread waits on.
ProcGetBlocks ==
    /\ procPc = "get"
    /\ audio_queue = <<>>
    /\ UNCHANGED vars

\* Lines 124, 133: the queue stayed empty for the whole wait; get raises
\* queue.Empty, which the clause of line 133 catches.
ProcGetEmpty ==
    /\ procPc = "get"
    /\ audio_queue = <<>>
    /\ procPc' = "except_empty"
    /\ UNCHANGED <<mainVars, audio_queue, previous_rms, mapping_rules, stats, cb,
                   procLocals, upVars, failed, histVars>>

\* Line 134: continue, back to the test of the flag.
ProcContinueBreaks ==
    /\ procPc = "except_empty"
    /\ procPc' = "done"
    /\ UNCHANGED <<mainVars, audio_queue, previous_rms, mapping_rules, stats, cb,
                   procLocals, upVars, failed, histVars>>
ProcContinue ==
    /\ procPc = "except_empty"
    /\ procPc' = "while"
    /\ UNCHANGED <<mainVars, audio_queue, previous_rms, mapping_rules, stats, cb,
                   procLocals, upVars, failed, histVars>>

\* Line 127: extract_features, which updates previous_rms in detect_onset.
ProcExtract ==
    /\ procPc = "extract"
    /\ features' = extract_features(audio_data, previous_rms)
    /\ previous_rms' = audio_data.rms
    /\ calls' = Append(calls, <<audio_data.rms, detect_onset(audio_data.rms, previous_rms)>>)
    /\ procPc' = "callback"
    /\ UNCHANGED <<args, applied, interrupted, mainVars, audio_queue, mapping_rules, stats, cb, audio_data, hsv,
                   particles, motion, upVars, failed, captured, dropped,
                   consumed, delivered, sent, documents>>

ProcCallbackSkipsSilent ==
    /\ procPc = "callback"
    /\ delivered' = IF features.rms = 0 THEN delivered ELSE Append(delivered, features)
    /\ stats' = [frames_processed |-> stats.frames_processed + 1,
                 onsets_detected |-> stats.onsets_detected + (IF features.onset THEN 1 ELSE 0)]
    /\ procPc' = IF features.rms = 0 THEN "while" ELSE "map_color"
    /\ IF features.rms = 0 THEN ClearedLocals ELSE UNCHANGED procLocals
    /\ UNCHANGED <<mainVars, audio_queue, previous_rms, mapping_rules, cb, upVars,
                   failed, args, applied, interrupted, captured, dropped, consumed, sent,
                   documents, calls>>
ProcCallbackIfRunning ==
    /\ procPc = "callback"
    /\ delivered' = IF is_running THEN Append(delivered, features) ELSE delivered
    /\ stats' = IF is_running
                   THEN [frames_processed |-> stats.frames_processed + 1,
                         onsets_detected |-> stats.onsets_detected + (IF features.onset THEN 1 ELSE 0)]
                   ELSE stats
    /\ procPc' = IF is_running THEN "map_color" ELSE "while"
    /\ IF is_running THEN UNCHANGED procLocals ELSE ClearedLocals
    /\ UNCHANGED <<mainVars, audio_queue, previous_rms, mapping_rules, cb, upVars,
                   failed, args, applied, interrupted, captured, dropped, consumed, sent,
                   documents, calls>>
\* Lines 130-131 and on_audio_features lines 173-175: the callback is
\* called with the snapshot and updates the statistics.
ProcCallback ==
    /\ procPc = "callback"
    /\ delivered' = Append(delivered, features)
    /\ stats' = [frames_processed |-> stats.frames_processed + 1,
                 onsets_detected |-> stats.onsets_detected + (IF features.onset THEN 1 ELSE 0)]
    /\ procPc' = "map_color"
    /\ UNCHANGED <<args, applied, interrupted, mainVars, audio_queue, previous_rms, mapping_rules, cb,
                   procLocals, upVars, failed, captured, dropped, consumed,
                   sent, documents, calls>>

\* process_audio_features line 294: map_frequency_to_color reads the rules.
ProcMapColor ==
    /\ procPc = "map_color"
    /\ hsv' = map_frequency_to_color(mapping_rules, features.dominant_freq, features.rms)
    /\ procPc' = "map_particles"
    /\ UNCHANGED <<mainVars, audio_queue, previous_rms, mapping_rules, stats, cb,
                   audio_data, features, particles, motion, upVars, failed,
                   histVars>>

\* process_audio_features line 295: map_rms_to_particles reads the rules.
ProcMapParticles ==
    /\ procPc = "map_particles"
    /\ particles' = map_rms_to_particles(mapping_rules, features.rms, 10)
    /\ procPc' = "map_motion"
    /\ UNCHANGED <<mainVars, audio_queue, previous_rms, mapping_rules, stats, cb,
                   audio_data, features, hsv, motion, upVars, failed, histVars>>

\* process_audio_features line 296: map_onset_to_motion reads the rules and,
\* on an onset, the wall clock.
ProcMapMotion ==
    /\ procPc = "map_motion"
    /\ \E clock_angle \in IF features.onset THEN ClockAngles ELSE {0} :
           motion' = map_onset_to_motion(mapping_rules, features.onset, features.rms, clock_angle)
    /\ procPc' = "send_color"
    /\ UNCHANGED <<mainVars, audio_queue, previous_rms, mapping_rules, stats, cb,
                   audio_data, features, hsv, particles, upVars, failed,
                   histVars>>

\* One send of process_audio_features, lines 299-305, that returns.
ProcSend(pc, message, next) ==
    /\ procPc = pc
    /\ sent' = Append(sent, message)
    /\ procPc' = next
    /\ IF next = "while"
          THEN ClearedLocals
          ELSE UNCHANGED procLocals
    /\ UNCHANGED <<args, applied, interrupted, mainVars, audio_queue, previous_rms, mapping_rules, stats, cb,
                   upVars, failed, captured, dropped, consumed, delivered,
                   documents, calls>>

\* Line 299: send_color_hsv.
ProcSendColor ==
    ProcSend("send_color", ColorMessage(features.id, hsv), "send_particles")

\* Line 300: send_particles.
ProcSendParticles ==
    ProcSend("send_particles", ParticlesMessage(features.id, particles), "send_motion")

\* Line 301: send_motion.
ProcSendMotion ==
    ProcSend("send_motion", MotionMessage(features.id, motion), "send_energy")

\* Lines 302-304: send_energy, then the test of the onset flag.
OnsetSentAlways(snapshot) == TRUE
OnsetIsSent(snapshot) == snapshot.onset
ProcSendEnergy ==
    ProcSend("send_energy", EnergyMessage(features.id, features.rms),
             IF OnsetIsSent(features) THEN "send_onset" ELSE "while")

\* Line 305: send_onset.
ProcSendOnset ==
    ProcSend("send_onset", OnsetMessage(features.id, features.rms), "while")

SendPcs == {"send_color", "send_particles", "send_motion", "send_energy", "send_onset"}

\* client.send_message raises in one of the sends; the exception leaves
\* process_audio_features and on_audio_features and is caught and printed at
\* lines 135-136, and the loop goes on.
ProcSendRaisesUncaught(limit) ==
    /\ procPc \in SendPcs
    /\ Cardinality(failed) < limit
    /\ failed' = failed \cup {features.id}
    /\ procPc' = "done"
    /\ ClearedLocals
    /\ UNCHANGED <<mainVars, audio_queue, previous_rms, mapping_rules, stats, cb,
                   upVars, histVars>>
\* A send whose exception is swallowed where it is raised: the message is
\* lost and the next send of the frame follows.
ProcSendRaisesSkips(limit) ==
    /\ procPc \in {"send_color", "send_particles", "send_motion"}
    /\ Cardinality(failed) < limit
    /\ failed' = failed \cup {features.id}
    /\ procPc' = CASE procPc = "send_color" -> "send_particles"
                   [] procPc = "send_particles" -> "send_motion"
                   [] procPc = "send_motion" -> "send_energy"
    /\ UNCHANGED <<mainVars, audio_queue, previous_rms, mapping_rules, stats, cb,
                   procLocals, upVars, histVars>>
ProcSendRaises(limit) ==
    /\ procPc \in SendPcs
    /\ Cardinality(failed) < limit
    /\ failed' = failed \cup {features.id}
    /\ procPc' = "while"
    /\ ClearedLocals
    /\ UNCHANGED <<mainVars, audio_queue, previous_rms, mapping_rules, stats, cb,
                   upVars, histVars>>

----------------------------------------------------------------------------
(* SynesthesiaAgent.update_ai_reasoning, called by the rule-update agent's  *)
(* thread.                                                                  *)

\* The document a whole update turns rules into.
Replaced(rules, new) ==
    [rules EXCEPT !.size_range = new.size_range,
                  !.bass_hue = <<new.hue_base, new.hue_base + 30>>]

\* Lines 127-146: recent_rms_values is read (AttributeError when the caller
\* never set it, return when it is empty) and the new values are chosen.
UpdateCall(recent) ==
    /\ upPc = "idle"
    /\ updates < MaxUpdates
    /\ updates' = updates + 1
    /\ IF recent \in {"unset", "empty"}
          THEN UNCHANGED <<upPc, upNew, documents>>
          ELSE /\ upNew' = NewRules(recent)
               /\ upPc' = "write_size"
               /\ documents' = documents \cup {Replaced(mapping_rules, NewRules(recent))}
    /\ UNCHANGED <<mainVars, audio_queue, previous_rms, mapping_rules, stats, cb,
                   procPc, procLocals, failed, args, applied, interrupted, captured, dropped,
                   consumed, delivered, sent, calls>>

\* Line 152: the size range is stored into the shared dict.
UpdateWriteSize ==
    /\ upPc = "write_size"
    /\ mapping_rules' = [mapping_rules EXCEPT !.size_range = upNew.size_range]
    /\ upPc' = "write_hue"
    /\ UNCHANGED <<mainVars, audio_queue, previous_rms, stats, cb, procPc,
                   procLocals, upNew, updates, failed, histVars>>

\* Lines 155-159: the bass hue range is stored into the shared dict;
\* mapper.rules is assigned the same dict and the call returns.
UpdateWriteHue ==
    /\ upPc = "write_hue"
    /\ mapping_rules' = [mapping_rules EXCEPT !.bass_hue = <<upNew.hue_base, upNew.hue_base + 30>>]
    /\ upPc' = "idle"
    /\ upNew' = None
    /\ UNCHANGED <<mainVars, audio_queue, previous_rms, stats, cb, procPc,
                   procLocals, updates, failed, histVars>>

----------------------------------------------------------------------------
(* Specifications                                                           *)

Process ==
    \/ ProcWhile
    \/ ProcGetFrame
    \/ ProcGetEmpty
    \/ ProcContinue
    \/ ProcExtract
    \/ ProcCallback
    \/ ProcMapColor
    \/ ProcMapParticles
    \/ ProcMapMotion
    \/ ProcSendColor
    \/ ProcSendParticles
    \/ ProcSendMotion
    \/ ProcSendEnergy
    \/ ProcSendOnset

\* A session: start and stop, a few frames of any kind, a send that raises.
Next ==
    \/ StartCall
    \/ StartStream
    \/ StartThread
    \/ StopCall
    \/ StopStream
    \/ StopJoin
    \/ \E kind \in FrameKinds : AudioCallbackCopy(MaxFrames, kind)
    \/ AudioCallbackPut
    \/ Process
    \/ ProcSendRaises(MaxSendFailures)

Spec == Init /\ [][Next]_vars

\* Overload: a steady tone, more frames of it than the queue holds.
NextLoad ==
    \/ StartCall
    \/ StartStream
    \/ StartThread
    \/ StopCall
    \/ StopStream
    \/ StopJoin
    \/ AudioCallbackCopy(MaxBurst, Tone)
    \/ AudioCallbackPut
    \/ Process

SpecLoad == Init /\ [][NextLoad]_vars

\* Rule updates while frames are mapped.
NextRules ==
    \/ StartCall
    \/ StartStream
    \/ StartThread
    \/ \E kind \in FrameKinds : AudioCallbackCopy(MaxRuleFrames, kind)
    \/ AudioCallbackPut
    \/ Process
    \/ \E recent \in RecentRmsValues : UpdateCall(recent)
    \/ UpdateWriteSize
    \/ UpdateWriteHue

SpecRules == Init /\ [][NextRules]_vars

\* detect_onset called on its own with a sequence of RMS values.
DetectOnsetCall(current_rms) ==
    /\ Len(calls) < MaxCalls
    /\ calls' = Append(calls, <<current_rms, detect_onset(current_rms, previous_rms)>>)
    /\ previous_rms' = current_rms
    /\ UNCHANGED <<mainVars, audio_queue, mapping_rules, stats, cb, procPc,
                   procLocals, upVars, failed, args, applied, interrupted, captured, dropped,
                   consumed, delivered, sent, documents>>

NextOnset == \E current_rms \in RmsLevels : DetectOnsetCall(current_rms)

SpecOnset == Init /\ [][NextOnset]_vars

\* The status the stream reports with a frame: empty, or a glitch such as an
\* input overflow.
StatusCodes == {"", "input overflow"}

\* Capture with glitches: each frame arrives with any status.
NextStatus ==
    \/ StartCall
    \/ StartStream
    \/ StartThread
    \/ \E kind \in {Silence, Tone}, status \in StatusCodes :
           AudioCallbackStatus(MaxStatusFrames, kind, status)
    \/ AudioCallbackPut
    \/ Process

SpecStatus == Init /\ [][NextStatus]_vars

\* SynesthesiaAgent.__init__ with the arguments a: the rules are what
\* load_mapping_rules returns; when it raises, no agent exists.
Constructed(a) ==
    LET loaded == load_mapping_rules(a.config)
    IN  /\ is_running = FALSE
        /\ stream = "none"
        /\ audio_queue = <<>>
        /\ previous_rms = 0
        /\ mapping_rules = loaded.rules
        /\ stats = [frames_processed |-> 0, onsets_detected |-> 0]
        /\ mainPc = IF loaded.raised THEN "raised" ELSE "init"
        /\ starts = 0
        /\ cb = <<>>
        /\ procPc = "none"
        /\ audio_data = None
        /\ features = None
        /\ hsv = None
        /\ particles = None
        /\ motion = None
        /\ upPc = "idle"
        /\ upNew = None
        /\ updates = 0
        /\ args = a
        /\ applied = <<>>
        /\ failed = {}
        /\ interrupted = {}
        /\ captured = <<>>
        /\ dropped = {}
        /\ consumed = <<>>
        /\ delivered = <<>>
        /\ sent = <<>>
        /\ documents = {loaded.rules}
        /\ calls = <<>>

\* The agent constructed with any file at config_path.
InitConfig == \E file \in ConfigFiles : Constructed([DefaultArgs EXCEPT !.config = file])

\* A session of the agent so constructed.
NextConfig ==
    \/ StartCall
    \/ StartStream
    \/ StartThread
    \/ \E kind \in {Silence, Tone} : AudioCallbackCopy(MaxConfigFrames, kind)
    \/ AudioCallbackPut
    \/ Process

SpecConfig == InitConfig /\ [][NextConfig]_vars

\* extract_features called on its own, on frames of any length.
\* Configurations: the default one, and one small enough for frames of the
\* configured length to be enumerated (bins 10 Hz apart).
ExtractArgs == {DefaultArgs, [DefaultArgs EXCEPT !.sample_rate = 80, !.buffer_size = 8]}
FrameLengths == {0, 1, 3, 4, 6, 8}
Magnitudes == {0, 1, 2}
ExtractFrames ==
    {frame \in UNION {[n : {n}, rms : {0, 5, 9}, spectrum : [1..(n \div 2) -> Magnitudes]] :
                       n \in FrameLengths} :
        frame.rms = 0 => \A k \in 1..Len(frame.spectrum) : frame.spectrum[k] = 0}

InitExtract == \E a \in ExtractArgs : Constructed(a)

\* One call of extract_features.  applied holds the latest call: its frame,
\* the baseline it found, what it raised or returned, and the length and
\* RMS of the frame of the last call before it that returned.
ExtractCall(frame) ==
    /\ mainPc = "init"
    /\ LET r == ExtractFeatures(frame, previous_rms, args)
           before == IF applied = <<>> THEN None
                     ELSE IF applied[1].raised = ""
                         THEN [n |-> applied[1].frame.n, rms |-> applied[1].frame.rms]
                     ELSE applied[1].before
       IN  /\ applied' = <<[fn |-> "extract_features", frame |-> frame,
                            baseline |-> previous_rms, before |-> before,
                            raised |-> r.raised, out |-> r.features]>>
           /\ previous_rms' = r.previous_rms
    /\ UNCHANGED <<mainVars, audio_queue, mapping_rules, stats, cb, procPc, procLocals,
                   upVars, failed, args, interrupted, captured, dropped, consumed,
                   delivered, sent, documents, calls>>

NextExtract == \E frame \in ExtractFrames : ExtractCall(frame)

SpecExtract == InitExtract /\ [][NextExtract]_vars

\* map_frequency_to_color called on its own by the mapper of
\* an agent constructed with the default rules, with a rules document of its
\* own or with a document that lacks the rules.
MapperFiles == {"missing", "custom", "not_rules"}
MapperFreqs == {100, 249, 250, 1033, 1999, 2000, 3014}
MapperIntensities == {0, 3, 5, 9}

InitMapper == \E file \in MapperFiles : Constructed([DefaultArgs EXCEPT !.config = file])

\* applied holds the latest two calls: the arguments, the rules the mapper
\* held and the result.
Latest(history, call) ==
    IF Len(history) < 2 THEN Append(history, call) ELSE <<history[2], call>>

MapColorCall(dominant_freq, intensity) ==
    /\ mainPc = "init"
    /\ applied' = Latest(applied, [fn |-> "map_frequency_to_color",
                                   dominant_freq |-> dominant_freq,
                                   intensity |-> intensity,
                                   rules |-> mapping_rules,
                                   out |-> map_frequency_to_color(mapping_rules, dominant_freq,
                                                                  intensity)])
    /\ UNCHANGED <<mainVars, audio_queue, previous_rms, mapping_rules, stats, cb, procPc,
                   procLocals, upVars, failed, args, interrupted, captured, dropped,
                   consumed, delivered, sent, documents, calls>>

NextMapper ==
    \E dominant_freq \in MapperFreqs, intensity \in MapperIntensities :
        MapColorCall(dominant_freq, intensity)

SpecMapper == InitMapper /\ [][NextMapper]_vars

\* map_rms_to_particles called on its own, the RMS in 1/64: binary fractions,
\* on which the doubles of the code compute exactly.
ParticleUnit == 64
ParticleRms == 0..ParticleUnit

MapParticlesCall(rms) ==
    /\ mainPc = "init"
    /\ applied' = Latest(applied, [fn |-> "map_rms_to_particles",
                                   rms |-> rms,
                                   rules |-> mapping_rules,
                                   out |-> map_rms_to_particles(mapping_rules, rms,
                                                                ParticleUnit)])
    /\ UNCHANGED <<mainVars, audio_queue, previous_rms, mapping_rules, stats, cb, procPc,
                   procLocals, upVars, failed, args, interrupted, captured, dropped,
                   consumed, delivered, sent, documents, calls>>

NextParticles == \E rms \in ParticleRms : MapParticlesCall(rms)

SpecParticles == InitMapper /\ [][NextParticles]_vars


\* map_onset_to_motion called on its own, at wall-clock times given in tenths
\* of a second.
ClockTimes == {0, 119, 120, 2005, 600000007}
MotionRms == {0, 3, 5, 9, 10}

MapMotionCall(onset, rms, now) ==
    /\ mainPc = "init"
    /\ applied' = Latest(applied, [fn |-> "map_onset_to_motion",
                                   onset |-> onset,
                                   rms |-> rms,
                                   now |-> now,
                                   rules |-> mapping_rules,
                                   out |-> map_onset_to_motion(mapping_rules, onset, rms,
                                                               WallClockAngle(now))])
    /\ UNCHANGED <<mainVars, audio_queue, previous_rms, mapping_rules, stats, cb, procPc,
                   procLocals, upVars, failed, args, interrupted, captured, dropped,
                   consumed, delivered, sent, documents, calls>>

NextMotion ==
    \E onset \in BOOLEAN, rms \in MotionRms, now \in ClockTimes : MapMotionCall(onset, rms, now)

SpecMotion == InitMapper /\ [][NextMotion]_vars


\* get_frequency_bands called on its own.  The processors have bins below
\* 20 Hz and in the bass (10 Hz apart), in the bass and the mid (125 Hz
\* apart, one bin at 250 Hz), in the mid and the treble (1000 Hz apart, one
\* bin at 2000 Hz), in the treble and above it (10000 Hz apart, one bin at
\* 20000 Hz); the spectra have up to MaxBins magnitudes, and two are longer:
\* one reaches the negative frequencies of freq_bins, one is longer than
\* freq_bins.
BandArgs ==
    {[DefaultArgs EXCEPT !.sample_rate = sr, !.buffer_size = 8] : sr \in {80, 1000, 8000, 80000}}
MaxBins == 4
BandSpectra ==
    UNION {[1..m -> Magnitudes] : m \in 0..MaxBins}
        \cup {<<1, 2, 0, 1, 2, 1>>, <<2, 1, 1, 2, 0, 1, 2, 1, 1>>}

InitBands == \E a \in BandArgs : Constructed(a)

BandsCall(spectrum) ==
    /\ mainPc = "init"
    /\ applied' = <<[fn |-> "get_frequency_bands",
                     spectrum |-> spectrum,
                     out |-> get_frequency_bands(spectrum, args)]>>
    /\ UNCHANGED <<mainVars, audio_queue, previous_rms, mapping_rules, stats, cb, procPc,
                   procLocals, upVars, failed, args, interrupted, captured, dropped,
                   consumed, delivered, sent, documents, calls>>

NextBands == \E spectrum \in BandSpectra : BandsCall(spectrum)

SpecBands == InitBands /\ [][NextBands]_vars


\* Stopping: a few frames of a tone, every thread scheduled again and again.
\* The processing thread takes its next step whenever it has one (extraction,
\* the callback and the wait of get all return); the stream's thread
\* completes the callback it has begun; the thread in stop() goes on to close
\* the stream and to return from the join once the joined thread is gone.
NextStop ==
    \/ StartCall
    \/ StartStream
    \/ StartThread
    \/ StopCall
    \/ StopStream
    \/ StopJoin
    \/ AudioCallbackCopy(MaxStopFrames, Tone)
    \/ AudioCallbackPut
    \/ Process

SpecStop ==
    /\ Init
    /\ [][NextStop]_vars
    /\ WF_vars(Process)
    /\ WF_vars(AudioCallbackPut)
    /\ WF_vars(StopStream)
    /\ WF_vars(StopJoin)


\* detect_onset called on its own with RMS values in hundredths, fine enough
\* for three rises of more than 0.3 below 1.0; previous_rms is in hundredths
\* here.  On these levels the float subtraction of detect_onset agrees with
\* exact arithmetic on the decimal labels.
FineLevels == {0, 31, 50, 62, 93, 100}

\* detect_onset without line 252: the baseline is never updated.
DetectOnsetFineKeepsBaseline(current_rms) ==
    /\ Len(calls) < MaxFineCalls
    /\ calls' = Append(calls, <<current_rms, detect_onset_fine(current_rms, previous_rms)>>)
    /\ UNCHANGED <<mainVars, audio_queue, previous_rms, mapping_rules, stats, cb, procPc,
                   procLocals, upVars, failed, args, applied, interrupted, captured, dropped,
                   consumed, delivered, sent, documents>>

DetectOnsetFineCall(current_rms) ==
    /\ Len(calls) < MaxFineCalls
    /\ calls' = Append(calls, <<current_rms, detect_onset_fine(current_rms, previous_rms)>>)
    /\ previous_rms' = current_rms
    /\ UNCHANGED <<mainVars, audio_queue, mapping_rules, stats, cb, procPc,
                   procLocals, upVars, failed, args, applied, interrupted, captured, dropped,
                   consumed, delivered, sent, documents>>

NextRuns == \E current_rms \in FineLevels : DetectOnsetFineCall(current_rms)

SpecRuns == Init /\ [][NextRuns]_vars


\* One session that is not stopped: a few frames of any kind, and sends that
\* raise.
NextSend ==
    \/ StartCall
    \/ StartStream
    \/ StartThread
    \/ \E kind \in FrameKinds : AudioCallbackCopy(MaxSendFrames, kind)
    \/ AudioCallbackPut
    \/ Process
    \/ ProcSendRaises(MaxSendFrames)

SpecSend == Init /\ [][NextSend]_vars


----------------------------------------------------------------------------
(* Properties                                                               *)

IsPrefix(a, b) == Len(a) <= Len(b) /\ a = SubSeq(b, 1, Len(a))
DeliveredIds == [i \in 1..Len(delivered) |-> delivered[i].id]
MessagesOf(f) == SelectSeq(sent, LAMBDA m : m.frame = f)
AddressesOf(f) == [i \in 1..Len(MessagesOf(f)) |-> MessagesOf(f)[i].address]
\* The snapshot of frame f is no longer being handled by the processing thread.
Finished(f) == features = None \/ features.id # f

\* C1: a mapper invocation that runs while update_ai_reasoning runs computes
\* its outputs from one document: the bass hue range and the size range it
\* has read are both those of one of the documents installed (the document
\* before the update or the document after it), never the hue range of one
\* paired with the size range of the other.  Stated for a bass snapshot once
\* both fields are read.
C1_MapperReadsOneDocument ==
    (particles # None /\ features.dominant_freq < 250) =>
        \E d \in documents :
            /\ hsv.hue_range = d.bass_hue
            /\ particles.size_range = d.size_range

\* C2: when put_nowait runs on a queue holding its 10 frames, the incoming
\* frame is discarded, the queued frames stay as they are, in order, and the
\* callback returns (nothing raised: the stream stays as it is).
C2_FullQueueDropsIncoming ==
    [][(cb # <<>> /\ cb' = <<>> /\ Len(audio_queue) = QueueMaxSize) =>
          /\ audio_queue' = audio_queue
          /\ cb[1].id \in dropped'
          /\ stream' = stream]_vars

C2_Witness ==
    /\ Len(audio_queue) = QueueMaxSize
    /\ cb = <<>>
    /\ Cardinality(dropped) = 1
    /\ \A i \in 1..QueueMaxSize : audio_queue[i].id \notin dropped

\* C3: once stop() has returned the processing thread has terminated, and
\* until the next start() no snapshot reaches the feature callback and no
\* OSC message is sent.
C3_NothingRunsAfterStop ==
    /\ [](mainPc = "stopped" => procPc \in {"none", "done"})
    /\ [][mainPc = "stopped" => (sent' = sent /\ delivered' = delivered)]_vars

C3_Witness ==
    /\ mainPc = "stopped"
    /\ procPc = "done"
    /\ Len(delivered) >= 1
    /\ audio_queue # <<>>

\* C4: the capture callback never waits on the processing thread: wherever
\* the processing thread is and whatever the queue holds, a callback that
\* has copied its frame can make its enqueue attempt and return, and an
\* active stream can invoke the callback.
C4_CallbackNeverWaits ==
    /\ cb # <<>> => ENABLED (AudioCallbackPut /\ cb' = <<>>)
    /\ (stream = "active" /\ cb = <<>> /\ Len(captured) < MaxBurst) =>
           ENABLED AudioCallbackCopy(MaxBurst, Tone)

C4_Witness ==
    /\ cb # <<>>
    /\ Len(audio_queue) = QueueMaxSize
    /\ procPc \in SendPcs

\* C5: the frame queue never holds more than 10 frames.
C5_QueueBounded == Len(audio_queue) <= QueueMaxSize

C5_Witness ==
    /\ Len(audio_queue) = QueueMaxSize
    /\ Cardinality(dropped) = 2
    /\ procPc = "get"

C7_OnsetIffRiseAboveThreshold ==
    /\ \A k \in 1..Len(calls) :
          calls[k][2] = (calls[k][1] - (IF k = 1 THEN 0 ELSE calls[k - 1][1]) > 3)
    /\ previous_rms = IF calls = <<>> THEN 0 ELSE calls[Len(calls)][1]
    /\ (Len(calls) >= 3 /\ calls[1][1] = 0 /\ calls[2][1] = 0 /\ calls[3][1] = 9) =>
          (~calls[1][2] /\ ~calls[2][2] /\ calls[3][2])

C7_Witness ==
    /\ Len(calls) = 4
    /\ calls[1] = <<0, FALSE>>
    /\ calls[2] = <<0, FALSE>>
    /\ calls[3] = <<9, TRUE>>
    /\ calls[4] = <<3, FALSE>>
    /\ previous_rms = 3

\* The addresses process_audio_features sends for a snapshot, in order.
ExpectedAddresses(snapshot) ==
    <<"/visual/color", "/visual/particles", "/visual/motion", "/visual/energy">>
        \o (IF snapshot.onset THEN <<"/visual/onset">> ELSE <<>>)

C10_SendFailureDoesNotStopLoop ==
    /\ [][/\ (procPc # "done" /\ procPc' = "done") => ~is_running
          /\ failed' # failed => procPc' = "while"
          /\ \A f \in failed : MessagesOf(f)' = MessagesOf(f)]_vars
    /\ [](\A i \in 1..Len(delivered) :
            (Finished(delivered[i].id) /\ delivered[i].id \notin failed) =>
                Len(MessagesOf(delivered[i].id)) = Len(ExpectedAddresses(delivered[i])))

C10_Witness ==
    /\ failed = {1}
    /\ Len(MessagesOf(1)) = 2
    /\ Len(delivered) = 2
    /\ Finished(2)
    /\ Len(MessagesOf(2)) = Len(ExpectedAddresses(delivered[2]))
    /\ is_running
    /\ procPc = "get"


\* C11: a frame the stream delivers with a non-empty status is dropped: it
\* is never placed in the queue, so it is neither waiting there nor dequeued.
C11_FlaggedFrameNotQueued ==
    /\ \A i \in 1..Len(audio_queue) : audio_queue[i].status = ""
    /\ \A i \in 1..Len(consumed) : captured[consumed[i]].status = ""


\* C12: loading the rules never fails the session, and for a missing file
\* and for every malformed file the agent uses the default rules.
C12_MalformedConfigUsesDefaults ==
    /\ mainPc # "raised"
    /\ args.config # "custom" => mapping_rules = get_default_rules


\* C13: when the queue stayed empty for the whole wait, the dequeue ends in
\* the clause for the empty queue and the loop goes back to test the flag:
\* no frame is taken, no snapshot produced, no callback invoked, nothing
\* sent, no error recorded.
C13_EmptyWaitOnlyLoops ==
    [][/\ (procPc = "get" /\ audio_queue = <<>> /\ procPc' # procPc)
              => /\ procPc' = "except_empty"
                 /\ UNCHANGED <<audio_queue, consumed, procLocals, previous_rms, calls,
                                delivered, stats, sent, failed>>
       /\ (procPc = "except_empty" /\ procPc' # procPc)
              => /\ procPc' = "while"
                 /\ UNCHANGED <<consumed, procLocals, previous_rms, calls,
                                delivered, stats, sent, failed>>]_vars
C13_Witness ==
    /\ procPc = "except_empty"
    /\ is_running
    /\ consumed # <<>>
    /\ audio_queue = <<>>


\* C14: a step of the capture callback changes nothing but the frame queue
\* (and the callback's own position and the record of what it was given and
\* what it dropped): the onset baseline, the statistics and the rules stay
\* as they are, no frame is extracted and nothing is sent.
C14_CallbackTouchesOnlyQueue ==
    [][cb' # cb => UNCHANGED <<previous_rms, stats, mapping_rules, is_running, stream,
                               procPc, procLocals, consumed, calls, delivered, sent,
                               failed, documents>>]_vars
C14_Witness ==
    /\ cb = <<>>
    /\ Len(captured) = 2
    /\ audio_queue # <<>>
    /\ audio_queue[Len(audio_queue)].id = 2
    /\ previous_rms = 5
    /\ stats.frames_processed = 1
    /\ sent # <<>>


\* C15: the onset of every frame extract_features processes, whatever its
\* length and the length of the frame before it, is decided against the RMS
\* of the last frame processed (0 before the first), and the frame's RMS is
\* the baseline afterwards; a call that raises leaves the baseline alone.
C15_BaselineSurvivesOtherLengths ==
    \A i \in DOMAIN applied :
        LET c == applied[i]
            last_rms == IF c.before = None THEN 0 ELSE c.before.rms
        IN  c.fn = "extract_features" =>
                IF c.raised = ""
                    THEN /\ c.out.onset = (c.frame.rms - last_rms > OnsetThreshold)
                         /\ previous_rms = c.frame.rms
                    ELSE previous_rms = last_rms
C15_Witness ==
    /\ applied # <<>>
    /\ applied[1].fn = "extract_features"
    /\ applied[1].raised = ""
    /\ applied[1].frame.n # args.buffer_size
    /\ applied[1].before # None
    /\ applied[1].before.n # applied[1].frame.n
    /\ applied[1].before.rms = 5
    /\ applied[1].frame.rms = 5
    /\ ~applied[1].out.onset


\* C16: extract_features returns a snapshot, and raises nothing, for a frame
\* of every length: the snapshot holds the n \div 2 magnitudes and the RMS
\* of the frame.
C16_ExtractReturnsForEveryLength ==
    \A i \in DOMAIN applied :
        applied[i].fn = "extract_features" =>
            /\ applied[i].raised = ""
            /\ Len(applied[i].out.spectrum) = applied[i].frame.n \div 2
            /\ applied[i].out.rms = applied[i].frame.rms

\* C17: for a frame of length n at sample rate sr, the dominant frequency is
\* k * sr / n for the lowest bin k of the largest magnitude among the bins
\* whose frequency k * sr / n is 20 Hz or more, and the bins below 20 Hz stay
\* in the magnitudes of the snapshot.
C17_DominantIsPeakBinOfFrame ==
    \A i \in DOMAIN applied :
        (applied[i].fn = "extract_features" /\ applied[i].raised = "") =>
            LET n == applied[i].frame.n
                sr == args.sample_rate
                spectrum == applied[i].frame.spectrum
                audible == {k \in 0..(Len(spectrum) - 1) : k * sr >= 20 * n}
                peaks == {k \in audible : \A j \in audible : spectrum[j + 1] <= spectrum[k + 1]}
                dominant_freq == applied[i].out.dominant_freq
            IN  /\ applied[i].out.spectrum = spectrum
                /\ \E k \in peaks :
                       /\ \A j \in peaks : k <= j
                       /\ dominant_freq[1] * n = k * sr * dominant_freq[2]

\* C18: every snapshot extract_features returns holds the energies of the
\* bass, mid and treble bands of the frame's spectrum.
C18_SnapshotHasBandEnergies ==
    \A i \in DOMAIN applied :
        (applied[i].fn = "extract_features" /\ applied[i].raised = "") =>
            /\ {"bass", "mid", "treble"} \subseteq DOMAIN applied[i].out
            /\ LET bands == get_frequency_bands(applied[i].out.spectrum, args)
               IN  /\ applied[i].out.bass = bands.bass
                   /\ applied[i].out.mid = bands.mid
                   /\ applied[i].out.treble = bands.treble


\* C19: the band map_frequency_to_color selects is the one whose Hz range
\* configured in the rules contains the dominant frequency; the hue is the
\* midpoint of that band's hue range, the saturation that band's saturation,
\* the value min(2 * intensity, 1.0); with the default rules 100 Hz gives
\* hue 15.
C19_BandByConfiguredRange ==
    \A i \in DOMAIN applied :
        LET c == applied[i]
            Contains(hz) == hz[1] <= c.dominant_freq /\ c.dominant_freq < hz[2]
            Selected(band, hue_range, saturation) ==
                /\ c.out.band = band
                /\ 2 * c.out.h = hue_range[1] + hue_range[2]
                /\ c.out.s = saturation
        IN  (c.fn = "map_frequency_to_color" /\ "bass_hz" \in DOMAIN c.rules) =>
                /\ Contains(c.rules.bass_hz)
                       => Selected("bass", c.rules.bass_hue, c.rules.bass_saturation)
                /\ Contains(c.rules.mid_hz)
                       => Selected("mid", c.rules.mid_hue, c.rules.mid_saturation)
                /\ Contains(c.rules.treble_hz)
                       => Selected("treble", c.rules.treble_hue, c.rules.treble_saturation)
                /\ c.out.v = (IF 2 * c.intensity < 10 THEN 2 * c.intensity ELSE 10)
                /\ (c.rules = get_default_rules /\ c.dominant_freq = 100) => c.out.h = 15


\* C21: map_rms_to_particles returns count = 10 + rms * rms * 100 truncated
\* to an integer and size = size_lo + rms * (size_hi - size_lo), the size
\* range being that of the rules (5..50 when they hold none); for rms in
\* [0, 1] the count lies in 10..110 and does not decrease when rms grows;
\* with the default range rms 0.0 gives (10, 5) and rms 1.0 gives (110, 50).
C21_ParticlesFollowRms ==
    /\ \A i \in DOMAIN applied :
           applied[i].fn = "map_rms_to_particles" =>
               LET c == applied[i]
                   range == IF "size_range" \in DOMAIN c.rules
                                THEN c.rules.size_range ELSE <<5, 50>>
                   \* 10 + rms * rms * 100 in 1/4096
                   exact == 10 * ParticleUnit * ParticleUnit + 100 * c.rms * c.rms
               IN  /\ c.out.count * ParticleUnit * ParticleUnit <= exact
                   /\ exact < (c.out.count + 1) * ParticleUnit * ParticleUnit
                   /\ c.out.size = ParticleUnit * range[1] + c.rms * (range[2] - range[1])
                   /\ c.out.count \in 10..110
                   /\ range = <<5, 50>> /\ c.rms = 0 =>
                          c.out.count = 10 /\ c.out.size = 5 * ParticleUnit
                   /\ range = <<5, 50>> /\ c.rms = ParticleUnit =>
                          c.out.count = 110 /\ c.out.size = 50 * ParticleUnit
    /\ \A i, j \in DOMAIN applied :
           /\ applied[i].fn = "map_rms_to_particles"
           /\ applied[j].fn = "map_rms_to_particles"
           /\ applied[i].rms <= applied[j].rms
           => applied[i].out.count <= applied[j].out.count

\* Two calls under the default rules: silence, then full scale.
C21_Witness ==
    /\ Len(applied) = 2
    /\ mapping_rules = get_default_rules
    /\ applied[1].fn = "map_rms_to_particles" /\ applied[1].rms = 0
    /\ applied[1].out.count = 10 /\ applied[1].out.size = 5 * ParticleUnit
    /\ applied[2].fn = "map_rms_to_particles" /\ applied[2].rms = ParticleUnit
    /\ applied[2].out.count = 110 /\ applied[2].out.size = 50 * ParticleUnit


\* C22: map_onset_to_motion returns, when onset is true, the speed
\* onset_velocity * (1 + rms), the velocity being that of the rules (0.75
\* when they hold none), and an angle in [0, 360) that is the wall-clock time
\* times 30 reduced modulo 360; when onset is false it returns exactly
\* speed 0.1 and angle 0, whatever the rms, the rules and the time.
C22_MotionFollowsOnset ==
    \A i \in DOMAIN applied :
        applied[i].fn = "map_onset_to_motion" =>
            LET c == applied[i]
                velocity == IF "onset_velocity" \in DOMAIN c.rules
                                THEN c.rules.onset_velocity ELSE 75
            IN  IF c.onset
                    THEN /\ c.out.speed = velocity * 10 + velocity * c.rms
                         /\ c.out.angle >= 0 /\ c.out.angle < 360
                         /\ (3 * c.now - c.out.angle) % 360 = 0
                    ELSE c.out.speed = 100 /\ c.out.angle = 0

\* Under rules with a velocity of their own: an onset at a time whose angle
\* has wrapped, then a call without onset at full scale at a time whose
\* angle is not 0.
C22_Witness ==
    /\ Len(applied) = 2
    /\ mapping_rules = CustomRules
    /\ applied[1].fn = "map_onset_to_motion" /\ applied[1].onset
    /\ applied[1].rms = 5 /\ applied[1].now = 2005
    /\ applied[1].out = [speed |-> 750, angle |-> 255]
    /\ applied[2].fn = "map_onset_to_motion" /\ ~applied[2].onset
    /\ applied[2].rms = 10 /\ applied[2].now = 119
    /\ applied[2].out = [speed |-> 100, angle |-> 0]


\* C23: get_frequency_bands assigns each bin of the spectrum to at most one
\* band by half-open ranges of the bin's frequency (bass [20, 250), mid
\* [250, 2000), treble [2000, 20000) Hz; a bin below 20 Hz or at or above
\* 20000 Hz belongs to none), returns for each band the arithmetic mean of
\* the magnitudes of its bins, and returns 0.0 for a band with no bin; it
\* returns for every spectrum.
C23_BandsAreHalfOpenMeans ==
    \A i \in DOMAIN applied :
        applied[i].fn = "get_frequency_bands" =>
            LET c == applied[i]
                \* the bins of the spectrum that have an entry in freq_bins
                \* with low <= freq_bins[k] < high
                In(low, high) ==
                    {k \in 0..(Len(c.spectrum) - 1) :
                        /\ k < args.buffer_size
                        /\ low * args.buffer_size <= FreqBin(k, args)
                        /\ FreqBin(k, args) < high * args.buffer_size}
                bands == <<In(20, 250), In(250, 2000), In(2000, 20000)>>
                out == <<c.out.bass, c.out.mid, c.out.treble>>
            IN  /\ \A k \in 0..(Len(c.spectrum) - 1) :
                       Cardinality({b \in 1..3 : k \in bands[b]}) <= 1
                /\ \A b \in 1..3 :
                       IF bands[b] = {}
                           THEN out[b][1] = 0 /\ out[b][2] = 1
                           ELSE /\ out[b][2] = Cardinality(bands[b])
                                /\ out[b][1] = SumOver(c.spectrum, bands[b])

\* The processor with bins 1000 Hz apart, a spectrum of four bins: no bin in
\* the bass (0.0), the bin at 1000 Hz alone in the mid, the bins at 2000 Hz
\* and 3000 Hz in the treble.
C23_Witness ==
    /\ args.sample_rate = 8000
    /\ Len(applied) = 1
    /\ applied[1].fn = "get_frequency_bands"
    /\ applied[1].spectrum = <<1, 2, 2, 0>>
    /\ applied[1].out = [bass |-> <<0, 1>>, mid |-> <<2, 1>>, treble |-> <<2, 2>>]


\* C24: the frames handed to extraction are a subsequence of the frames
\* captured, in the order of capture: the frames dequeued so far, followed
\* by the frames still queued, are exactly the captured frames that were
\* not dropped at the queue (the frame the callback still holds aside), in
\* the order of capture; a dropped frame is never dequeued later.
C24_ProcessedInCaptureOrder ==
    LET queued == [i \in 1..Len(audio_queue) |-> audio_queue[i].id]
        ids == [i \in 1..Len(captured) |-> captured[i].id]
        held == {cb[i].id : i \in DOMAIN cb}
        accepted == SelectSeq(ids, LAMBDA f : f \notin dropped /\ f \notin held)
    IN  /\ consumed \o queued = accepted
        /\ \A i, j \in DOMAIN ids : i < j => ids[i] < ids[j]
        /\ \A i \in DOMAIN consumed : consumed[i] \notin dropped

\* A frame was dropped at the full queue, and frames captured after it have
\* been dequeued since.
C24_Witness ==
    /\ dropped # {}
    /\ \E i \in DOMAIN consumed : \E f \in dropped : consumed[i] > f
    /\ \E i \in DOMAIN consumed : \E f \in dropped : consumed[i] < f


\* C25: once stop() has cleared is_running, the processing loop eventually
\* exits and the join of stop() eventually returns, whether the queue is
\* empty or the callback goes on enqueueing; until then the loop dequeues at
\* most one more frame (the iteration it is in), however many are queued.
C25_LoopExitsAfterStop ==
    /\ (~is_running /\ procPc \notin {"none", "done"}) ~> (procPc = "done")
    /\ (mainPc \in {"stop_stream", "join"}) ~> (mainPc = "stopped")
    /\ \A s \in 1..(MaxStarts + 1), n \in 0..(MaxStopFrames + 1) :
           [](mainPc \in {"stop_stream", "join"} /\ starts = s /\ Len(consumed) = n
                  => [](starts = s => Len(consumed) <= n + 1))

\* stop() has returned: the thread has exited without dequeuing a frame,
\* while the callback went on enqueueing.
C25_Witness ==
    /\ mainPc = "stopped"
    /\ procPc = "done"
    /\ ~is_running
    /\ Len(audio_queue) >= 2
    /\ consumed = <<>>


\* C26: start() on a processor that is running changes nothing (it opens no
\* stream and starts no thread), and stop() on a processor that is not
\* running changes nothing; a stream is opened only when none is active and
\* a processing thread is started only when none is alive, so that under
\* any sequence of start() and stop() calls at most one processing thread
\* exists, and only between a start() and the return of the next stop().
C26_StartStopIdempotent ==
    /\ [](mainPc \in {"init", "running", "stopped"} /\ is_running
              => ~ENABLED <<StartCall>>_vars)
    /\ [](mainPc \in {"init", "running", "stopped"} /\ ~is_running
              => ~ENABLED <<StopCall>>_vars)
    /\ [](procPc \notin {"none", "done"} => mainPc \in {"running", "stop_stream", "join"})
    /\ [][/\ stream' = "active" /\ stream # "active" => mainPc = "start_stream"
          /\ mainPc = "start_stream" => stream # "active"
          /\ mainPc = "start_thread" => procPc \in {"none", "done"}
          /\ procPc' = "while" /\ procPc \in {"none", "done"} => mainPc = "start_thread"]_vars

\* A running processor on which start() can be called again: the thread of
\* the one start() is at work on its second frame.
C26_Witness ==
    /\ mainPc = "running"
    /\ is_running
    /\ starts = 1
    /\ stream = "active"
    /\ procPc = "extract"
    /\ Len(consumed) = 2
    /\ ENABLED StartCall


\* C27: in every reachable state, a send having raised or not, the messages
\* sent for one snapshot are a prefix of color, particles, motion, energy,
\* [onset]: a message of a frame is sent only after all the earlier ones of
\* that frame; and the messages of two frames never interleave: the frames
\* of the messages, in the order sent, never step back to an earlier frame.
C27_MessagesInOrderPerFrame ==
    /\ \A i \in DOMAIN delivered :
           IsPrefix(AddressesOf(delivered[i].id), ExpectedAddresses(delivered[i]))
    /\ \A j \in DOMAIN sent : \E i \in DOMAIN delivered : delivered[i].id = sent[j].frame
    /\ \A j \in DOMAIN sent : j > 1 => sent[j - 1].frame <= sent[j].frame

\* A send of the first frame raised after two of its messages; the second
\* frame, which reports an onset, has all five of its messages sent.
C27_Witness ==
    /\ Len(delivered) = 2
    /\ delivered[1].id \in failed
    /\ AddressesOf(delivered[1].id) = <<"/visual/color", "/visual/particles">>
    /\ delivered[2].onset
    /\ Len(MessagesOf(delivered[2].id)) = 5
    /\ Len(sent) = 7


\* C28: with every RMS in [0, 1] and the threshold 0.3, a frame reports an
\* onset only if its RMS is more than 0.3 above that of the frame processed
\* before it (0.0 before the first); hence no four consecutive frames all
\* report an onset, and a frame whose RMS is not above the previous frame's
\* reports none.
C28_OnsetRunsAtMostThree ==
    LET before(k) == IF k = 1 THEN 0 ELSE calls[k - 1][1]
    IN  /\ \A k \in DOMAIN calls : calls[k][2] => calls[k][1] - before(k) > 30
        /\ \A k \in DOMAIN calls : calls[k][1] <= before(k) => ~calls[k][2]
        /\ \A k \in DOMAIN calls :
               k + 3 <= Len(calls) =>
                   ~(calls[k][2] /\ calls[k + 1][2] /\ calls[k + 2][2] /\ calls[k + 3][2])

\* Three onsets in a row, at 0.31, 0.62 and 0.93, then full scale without one.
C28_Witness ==
    calls = <<<<31, TRUE>>, <<62, TRUE>>, <<93, TRUE>>, <<100, FALSE>>>>


\* C29: stop() neither drains the queue nor resets the onset baseline.  No
\* step of stop() or of start() changes the queue or previous_rms; once the
\* loop has exited the queue only grows (by frames the callback enqueues
\* until the stream is closed) and previous_rms stays; whenever a frame is
\* dequeued, in whichever session, it is the oldest frame of the queue; and
\* every frame's onset is its RMS compared with the RMS of the frame
\* processed before it, in whichever session that was.
C29_StopKeepsQueueAndBaseline ==
    /\ [][mainPc' # mainPc => audio_queue' = audio_queue /\ previous_rms' = previous_rms]_vars
    /\ [][procPc = "done" /\ procPc' = "done"
              => IsPrefix(audio_queue, audio_queue') /\ previous_rms' = previous_rms]_vars
    /\ [][consumed' # consumed
              => /\ audio_queue # <<>>
                 /\ consumed' = Append(consumed, Head(audio_queue).id)
                 /\ audio_queue' = Tail(audio_queue)]_vars
    /\ [](/\ \A k \in DOMAIN calls :
                 calls[k][2] = (calls[k][1] - (IF k = 1 THEN 0 ELSE calls[k - 1][1]) > 3)
          /\ previous_rms = (IF calls = <<>> THEN 0 ELSE calls[Len(calls)][1]))

\* A second start() under way, its stream not yet opened: the frames
\* enqueued during the first session and not processed in it are in the
\* queue, and previous_rms is the RMS of the one frame processed so far.
C29_Witness ==
    /\ starts = 2
    /\ mainPc = "start_stream"
    /\ stream = "closed"
    /\ procPc = "done"
    /\ consumed = <<1>>
    /\ Len(audio_queue) = 2
    /\ Head(audio_queue).id = 2
    /\ previous_rms = 5

====
